---- MODULE Spec2Model ----
(***************************************************************************)
(* REDasm core: Segment, Instruction/Operand, Printer and the PE import    *)
(* walk (PeFormat::readDescriptor), modelled from src/redasm/redasm.h,     *)
(* src/redasm/plugins/processor/printer.cpp, src/redasm/formats/pe/pe.h.   *)
(*                                                                         *)
(* 64-bit and 32-bit machine words are kept at their real width.  TLC's    *)
(* integers stop at 2^31-1, so a word is a little-endian tuple of 16-bit   *)
(* limbs: a u64 is <<l0, l1, l2, l3>>, a u32 / int is <<l0, l1>>.          *)
(* Text (std::string) is a sequence of one-character strings.              *)
(***************************************************************************)
EXTENDS Integers, Sequences, FiniteSets, TLC

VARIABLES
    segment,    \* the Segment under construction / query
    segArgs,    \* the constructor call that built it (history)
    segQuery,   \* the last contains()/size() call and what it returned
    ins,        \* the Instruction: type, operands, userdata, free
    alive,      \* FALSE once ~Instruction() has run
    allocated,  \* how many payloads the decoder has allocated so far
    released,   \* the payloads handed to the release routine, in call order
    last,       \* the operation that ran last
    calls,      \* how many times the last operation invoked the release routine
    symbols,    \* the Symbol Table: a set of [address, name, type], one per address
    text,       \* what Printer::out returned for ins (NotRendered before the call)
    opcalls,    \* the (operand, rendered text) pairs Printer::out handed to opfunc
    memQuery,   \* the last direct Printer::mem call and what it returned
    image,      \* the PE image being loaded: bits, import descriptor, table content
    pc,         \* where readDescriptor is: "idle", "loop", "done" or "crashed"
    idx,        \* the loop index i
    thunkptr,   \* the file offset the THUNK* thunk points at
    descriptorname, \* the lower-cased DLL name
    petype,     \* _petype
    steps,      \* per loop iteration: the thunk read, where from, the branch taken
    defs,       \* the defineSymbol calls of this walk, in order
    badAt,      \* Len(defs) when an RVA first failed to resolve, -1 before
    firstWalk   \* the names the walk defined under the first thunk width

segVars == <<segment, segArgs, segQuery>>
insVars == <<ins, alive, allocated, released, last, calls>>
prtVars == <<symbols, text, opcalls, memQuery>>
impVars == <<image, pc, idx, thunkptr, descriptorname, petype, steps, defs, badAt,
             firstWalk>>
vars == <<segment, segArgs, segQuery, ins, alive, allocated, released, last, calls,
          symbols, text, opcalls, memQuery, image, pc, idx, thunkptr, descriptorname,
          petype, steps, defs, badAt, firstWalk>>

----------------------------------------------------------------------------
(* Machine words.                                                          *)

Limb == 2 ^ 16
LimbMax == Limb - 1
HighBit == 2 ^ 15

U64Zero == <<0, 0, 0, 0>>
U64Max == <<LimbMax, LimbMax, LimbMax, LimbMax>>

\* A natural below 2^31 as a u64.
U64Of(n) == <<n % Limb, (n \div Limb) % Limb, 0, 0>>

\* a + b in 64-bit unsigned arithmetic (the carry out of bit 63 is dropped).
Add64(a, b) ==
    LET s1 == a[1] + b[1]
        s2 == a[2] + b[2] + (s1 \div Limb)
        s3 == a[3] + b[3] + (s2 \div Limb)
        s4 == a[4] + b[4] + (s3 \div Limb)
    IN  <<s1 % Limb, s2 % Limb, s3 % Limb, s4 % Limb>>

\* The carry out of bit 63 of a + b: TRUE iff the mathematical sum is >= 2^64.
Carry64(a, b) ==
    LET s1 == a[1] + b[1]
        s2 == a[2] + b[2] + (s1 \div Limb)
        s3 == a[3] + b[3] + (s2 \div Limb)
        s4 == a[4] + b[4] + (s3 \div Limb)
    IN  s4 >= Limb

\* a - b in 64-bit unsigned arithmetic.
Sub64(a, b) ==
    LET d1 == a[1] - b[1]
        d2 == a[2] - b[2] - (IF d1 < 0 THEN 1 ELSE 0)
        d3 == a[3] - b[3] - (IF d2 < 0 THEN 1 ELSE 0)
        d4 == a[4] - b[4] - (IF d3 < 0 THEN 1 ELSE 0)
    IN  <<d1 % Limb, d2 % Limb, d3 % Limb, d4 % Limb>>

\* a < b, unsigned.
Lt64(a, b) ==
    \/ a[4] < b[4]
    \/ a[4] = b[4] /\ a[3] < b[3]
    \/ a[4] = b[4] /\ a[3] = b[3] /\ a[2] < b[2]
    \/ a[4] = b[4] /\ a[3] = b[3] /\ a[2] = b[2] /\ a[1] < b[1]

Ge64(a, b) == ~Lt64(a, b)

----------------------------------------------------------------------------
(* Segment (redasm.h).                                                     *)

NoText == <<>>

\* Segment(): offset(0), address(0), endaddress(0), type(0)
Segment == [name |-> NoText, offset |-> U64Zero, address |-> U64Zero,
            endaddress |-> U64Zero, type |-> 0]

\* Segment(name, offset, address, size, flags): endaddress(address + size)
SegmentOf(name, offset, address, size, flags) ==
    [name |-> name, offset |-> offset, address |-> address,
     endaddress |-> Add64(address, size), type |-> flags]

\* u64 size() const { return endaddress - address; }
Segment_size(s) == Sub64(s.endaddress, s.address)

Segment_contains_upto(s, address) ==
    Ge64(address, s.address) /\ ~Lt64(s.endaddress, address)

\* bool contains(address) const { return (address >= this->address) && (address < endaddress); }
Segment_contains(s, address) ==
    Ge64(address, s.address) /\ Lt64(address, s.endaddress)

\* Addresses and sizes the section table can hold, the extremes included.
SegAddresses ==
    {U64Zero, U64Of(1), U64Of(4096), <<LimbMax - 1, LimbMax, LimbMax, LimbMax>>, U64Max}
SegSizes ==
    {U64Zero, U64Of(1), U64Of(2), U64Of(4096), U64Max}
SegProbes ==
    SegAddresses \cup {U64Of(2), U64Of(3), U64Of(4095), U64Of(4097), U64Of(8191), U64Of(8192)}

SegName == <<".", "t", "e", "x", "t">>
SegCode == 1

NoQuery == [kind |-> "none"]
SegFrame == UNCHANGED <<insVars, prtVars, impVars>>

SegInit ==
    /\ segment = Segment
    /\ segArgs = [ctor |-> "default"]
    /\ segQuery = NoQuery

SegOff == SegInit

SegDefault ==
    /\ segment' = Segment
    /\ segArgs' = [ctor |-> "default"]
    /\ segQuery' = NoQuery
    /\ SegFrame

SegConstruct ==
    \E address \in SegAddresses, sz \in SegSizes :
        /\ segment' = SegmentOf(SegName, U64Of(1024), address, sz, SegCode)
        /\ segArgs' = [ctor |-> "sized", address |-> address, size |-> sz]
        /\ segQuery' = NoQuery
        /\ SegFrame

SegContains ==
    \E address \in SegProbes :
        /\ segQuery' = [kind |-> "contains", address |-> address,
                        result |-> Segment_contains(segment, address)]
        /\ UNCHANGED <<segment, segArgs>>
        /\ SegFrame

SegSize ==
    /\ segQuery' = [kind |-> "size", result |-> Segment_size(segment)]
    /\ UNCHANGED <<segment, segArgs>>
    /\ SegFrame

SegNext == SegDefault \/ SegConstruct \/ SegContains \/ SegSize

----------------------------------------------------------------------------
(* Operand and Instruction (redasm.h).                                     *)

\* A 32-bit value widened to 64 bits, as a signed (s32) or unsigned (u32) one.
SignExt32(v) ==
    LET fill == IF v[2] >= HighBit THEN LimbMax ELSE 0
    IN  <<v[1], v[2], fill, fill>>
ZeroExt32(v) == <<v[1], v[2], 0, 0>>

\* The 64-bit pattern a value of integer type T leaves in s_value / u_value or
\* in an s64 parameter.
Widen(T, v) ==
    CASE T = "s32" -> SignExt32(v)
      [] T = "u32" -> ZeroExt32(v)
      [] OTHER -> v

OperandTypes_None == 0
OperandTypes_Register == 1
OperandTypes_Immediate == 2
OperandTypes_Memory == 3
OperandTypes_Displacement == 4
InstructionTypes_Jump == 4

REGISTER_INVALID == -1
NULL == 0

\* RegisterOperand(): type(0), r(REGISTER_INVALID); RegisterOperand(type, r)
RegisterOperand == [type |-> 0, r |-> REGISTER_INVALID]
RegisterOperandOf(type, r) == [type |-> type, r |-> r]

\* bool isValid() const { return r != REGISTER_INVALID; }
RegisterOperand_isValid(regop) == regop.r # REGISTER_INVALID

\* MemoryOperand(): scale(1), displacement(0); MemoryOperand(base, index, scale, displacement)
MemoryOperand ==
    [base |-> RegisterOperand, index |-> RegisterOperand, scale |-> 1,
     displacement |-> U64Zero]
MemoryOperandOf(base, index, scale, displacement) ==
    [base |-> base, index |-> index, scale |-> scale, displacement |-> displacement]

\* Operand(): type(None), pos(-1), u_value(0)
Operand ==
    [type |-> OperandTypes_None, pos |-> -1, reg |-> RegisterOperand,
     mem |-> MemoryOperand, value |-> U64Zero]

\* Operand(u32 type, T value, s32 pos): type(type), pos(pos), s_value/u_value(value)
OperandOf(type, T, value, pos) ==
    [type |-> type, pos |-> pos, reg |-> RegisterOperand,
     mem |-> MemoryOperand, value |-> Widen(T, value)]

\* Instruction(): address(0), type(0), size(0), segment(NULL), userdata(NULL);
\* free is an empty std::function.
Instruction ==
    [mnemonic |-> <<>>, type |-> 0, operands |-> <<>>, userdata |-> NULL, free |-> FALSE]

Instruction_reset_keep(i) ==
    [ins |-> [i EXCEPT !.type = 0, !.operands = <<>>],
     freed |-> IF i.free /\ i.userdata # NULL THEN <<i.userdata>> ELSE <<>>]

\* void reset() { type = 0; operands.clear(); if(free && userdata) { free(userdata); userdata = NULL; } }
\* The result is the Instruction afterwards and the payloads free() was called on.
Instruction_reset(i) ==
    IF i.free /\ i.userdata # NULL
    THEN [ins |-> [i EXCEPT !.type = 0, !.operands = <<>>, !.userdata = NULL],
          freed |-> <<i.userdata>>]
    ELSE [ins |-> [i EXCEPT !.type = 0, !.operands = <<>>], freed |-> <<>>]

Instruction_op_keep(i, op) ==
    [i EXCEPT !.operands = Append(i.operands, op)]

\* Instruction& op(Operand op) { op.pos = operands.size(); operands.push_back(op); }
Instruction_op(i, op) ==
    [i EXCEPT !.operands = Append(i.operands, [op EXCEPT !.pos = Len(i.operands)])]

\* Instruction& mem(address_t v)
Instruction_mem(i, v) ==
    [i EXCEPT !.operands =
        Append(i.operands, OperandOf(OperandTypes_Memory, "u64", v, Len(i.operands)))]

\* template<typename T> Instruction& imm(T v)
Instruction_imm(i, T, v) ==
    [i EXCEPT !.operands =
        Append(i.operands, OperandOf(OperandTypes_Immediate, T, v, Len(i.operands)))]

\* Instruction& reg(register_t r, u64 type = 0)
Instruction_reg(i, r, type) ==
    [i EXCEPT !.operands =
        Append(i.operands, [Operand EXCEPT !.pos = Len(i.operands),
                                            !.type = OperandTypes_Register,
                                            !.reg = RegisterOperandOf(type, r)])]

\* template<typename T> Instruction& disp(register_t base, register_t index, s32 scale, T displacement)
Instruction_disp4(i, base, index, scale, T, displacement) ==
    [i EXCEPT !.operands =
        Append(i.operands,
               [Operand EXCEPT !.pos = Len(i.operands),
                               !.type = OperandTypes_Displacement,
                               !.mem = MemoryOperandOf(RegisterOperandOf(0, base),
                                                       RegisterOperandOf(0, index),
                                                       scale, Widen(T, displacement))])]

\* disp(base, index, displacement) { return disp(base, index, 1, displacement); }
Instruction_disp3(i, base, index, T, displacement) ==
    Instruction_disp4(i, base, index, 1, T, displacement)

\* disp(base, displacement) { return disp(base, REGISTER_INVALID, displacement); }
Instruction_disp2(i, base, T, displacement) ==
    Instruction_disp3(i, base, REGISTER_INVALID, T, displacement)

\* Register identifiers of the decoding backend (register_t values).
RegisterIds == <<19, 21, 22>>
EAX == RegisterIds[1]
EBX == RegisterIds[2]
ECX == RegisterIds[3]

MaxOperands == 2
MaxPayloads == 2

\* Operands a decoder hands to op(): a default one and ones carrying a position.
CarriedOperands ==
    {Operand,
     [Operand EXCEPT !.type = OperandTypes_Register, !.pos = 5,
                     !.reg = RegisterOperandOf(0, EAX)],
     OperandOf(OperandTypes_Immediate, "s32", <<16, 0>>, 0)}

InsInit ==
    /\ ins = Instruction
    /\ alive = TRUE
    /\ allocated = 0
    /\ released = <<>>
    /\ last = "Instruction"
    /\ calls = 0

InsOff == InsInit

CanAppend == alive /\ Len(ins.operands) < MaxOperands
InsFrame == UNCHANGED <<segVars, prtVars, impVars>>

\* The decoder stores a freshly allocated payload in userdata.
InsAssignPayload ==
    /\ alive /\ allocated < MaxPayloads
    /\ allocated' = allocated + 1
    /\ ins' = [ins EXCEPT !.userdata = allocated + 1]
    /\ last' = "userdata" /\ calls' = 0
    /\ UNCHANGED <<alive, released>>
    /\ InsFrame

\* The decoder installs (or removes) the release routine.
InsAssignFree ==
    /\ alive
    /\ \E f \in BOOLEAN : ins' = [ins EXCEPT !.free = f]
    /\ last' = "free" /\ calls' = 0
    /\ UNCHANGED <<alive, allocated, released>>
    /\ InsFrame

InsSetType ==
    /\ alive
    /\ ins' = [ins EXCEPT !.type = InstructionTypes_Jump]
    /\ last' = "type" /\ calls' = 0
    /\ UNCHANGED <<alive, allocated, released>>
    /\ InsFrame

InsReset ==
    /\ alive
    /\ ins' = Instruction_reset(ins).ins
    /\ released' = released \o Instruction_reset(ins).freed
    /\ calls' = Len(Instruction_reset(ins).freed)
    /\ last' = "reset"
    /\ UNCHANGED <<alive, allocated>>
    /\ InsFrame

\* ~Instruction() { reset(); }
InsDestroy ==
    /\ alive
    /\ ins' = Instruction_reset(ins).ins
    /\ released' = released \o Instruction_reset(ins).freed
    /\ calls' = Len(Instruction_reset(ins).freed)
    /\ last' = "~Instruction"
    /\ alive' = FALSE
    /\ UNCHANGED allocated
    /\ InsFrame

InsOp ==
    /\ CanAppend
    /\ \E op \in CarriedOperands : ins' = Instruction_op(ins, op)
    /\ last' = "op" /\ calls' = 0
    /\ UNCHANGED <<alive, allocated, released>>
    /\ InsFrame

InsMem ==
    /\ CanAppend
    /\ ins' = Instruction_mem(ins, U64Of(4096))
    /\ last' = "mem" /\ calls' = 0
    /\ UNCHANGED <<alive, allocated, released>>
    /\ InsFrame

InsImm ==
    /\ CanAppend
    /\ \E T \in {"s32", "u32"} : ins' = Instruction_imm(ins, T, <<LimbMax, LimbMax>>)
    /\ last' = "imm" /\ calls' = 0
    /\ UNCHANGED <<alive, allocated, released>>
    /\ InsFrame

InsReg ==
    /\ CanAppend
    /\ ins' = Instruction_reg(ins, EBX, 0)
    /\ last' = "reg" /\ calls' = 0
    /\ UNCHANGED <<alive, allocated, released>>
    /\ InsFrame

InsDisp2 ==
    /\ CanAppend
    /\ ins' = Instruction_disp2(ins, EBX, "s32", <<16, 0>>)
    /\ last' = "disp" /\ calls' = 0
    /\ UNCHANGED <<alive, allocated, released>>
    /\ InsFrame

InsDisp3 ==
    /\ CanAppend
    /\ ins' = Instruction_disp3(ins, EBX, ECX, "s32", <<16, 0>>)
    /\ last' = "disp" /\ calls' = 0
    /\ UNCHANGED <<alive, allocated, released>>
    /\ InsFrame

InsDisp4 ==
    /\ CanAppend
    /\ ins' = Instruction_disp4(ins, EBX, ECX, 4, "s32", <<16, 0>>)
    /\ last' = "disp" /\ calls' = 0
    /\ UNCHANGED <<alive, allocated, released>>
    /\ InsFrame

InsNext ==
    \/ InsAssignPayload \/ InsAssignFree \/ InsSetType \/ InsReset \/ InsDestroy
    \/ InsOp \/ InsMem \/ InsImm \/ InsReg \/ InsDisp2 \/ InsDisp3 \/ InsDisp4

----------------------------------------------------------------------------
(* Symbol Table and REDasm::hex, as the Printer uses them.                 *)

NoSymbol == [name |-> <<>>, type |-> "none"]

\* Symbol* SymbolTable::symbol(address): the entry at address, or NULL.
SymbolTable_symbol(table, address) ==
    IF \E sym \in table : sym.address = address
    THEN CHOOSE sym \in table : sym.address = address
    ELSE NoSymbol

IsSymbol(sym) == sym # NoSymbol

HexDigits ==
    <<"0", "1", "2", "3", "4", "5", "6", "7", "8", "9", "A", "B", "C", "D", "E", "F">>

LimbDigits(l) ==
    <<HexDigits[(l \div 4096) + 1], HexDigits[((l \div 256) % 16) + 1],
      HexDigits[((l \div 16) % 16) + 1], HexDigits[(l % 16) + 1]>>

RECURSIVE StripZeros(_)
StripZeros(digits) ==
    IF Len(digits) > 1 /\ Head(digits) = "0" THEN StripZeros(Tail(digits)) ELSE digits

IsNeg64(v) == v[4] >= HighBit
Neg64(v) == Sub64(U64Zero, v)

\* REDasm::hex of an unsigned value: "0x" and the digits, no leading zeros.
HexUnsigned(v) ==
    <<"0", "x">> \o
    StripZeros(LimbDigits(v[4]) \o LimbDigits(v[3]) \o LimbDigits(v[2]) \o LimbDigits(v[1]))

\* REDasm::hex of a signed value: a negative one is "-0x" and its magnitude.
HexSigned(v) ==
    IF IsNeg64(v) THEN <<"-">> \o HexUnsigned(Neg64(v)) ELSE HexUnsigned(v)

----------------------------------------------------------------------------
(* Printer (printer.cpp).                                                  *)

\* std::string CapstonePrinter::reg(regop): the backend's name of the register.
Printer_reg(regop) ==
    CASE regop.r = EAX -> <<"e", "a", "x">>
      [] regop.r = EBX -> <<"e", "b", "x">>
      [] regop.r = ECX -> <<"e", "c", "x">>
      [] OTHER -> <<"r", "?">>

Plus == <<" ", "+", " ">>
Times == <<" ", "*", " ">>
Comma == <<",", " ">>

Printer_mem_noscale(memop, table) ==
    LET s1 == IF RegisterOperand_isValid(memop.base) THEN Printer_reg(memop.base) ELSE <<>>
        s2 == IF RegisterOperand_isValid(memop.index)
              THEN (IF s1 # <<>> THEN s1 \o Plus ELSE s1) \o Printer_reg(memop.index)
              ELSE s1
        symbol == SymbolTable_symbol(table, memop.displacement)
        positive == ~IsNeg64(memop.displacement) /\ memop.displacement # U64Zero
        s3 == IF memop.displacement # U64Zero
              THEN (IF s2 # <<>> /\ (positive \/ IsSymbol(symbol)) THEN s2 \o Plus ELSE s2)
                   \o (IF IsSymbol(symbol) THEN symbol.name ELSE HexSigned(memop.displacement))
              ELSE s2
    IN  IF s3 # <<>> THEN <<"[">> \o s3 \o <<"]">> ELSE <<>>

\* std::string Printer::mem(const MemoryOperand& memop) const
Printer_mem(memop, table) ==
    LET s1 == IF RegisterOperand_isValid(memop.base) THEN Printer_reg(memop.base) ELSE <<>>
        s2 == IF RegisterOperand_isValid(memop.index)
              THEN (IF s1 # <<>> THEN s1 \o Plus ELSE s1)
                   \o Printer_reg(memop.index)
                   \o (IF memop.scale > 1 THEN Times \o HexSigned(U64Of(memop.scale)) ELSE <<>>)
              ELSE s1
        symbol == SymbolTable_symbol(table, memop.displacement)
        positive == ~IsNeg64(memop.displacement) /\ memop.displacement # U64Zero
        s3 == IF memop.displacement # U64Zero
              THEN (IF s2 # <<>> /\ (positive \/ IsSymbol(symbol)) THEN s2 \o Plus ELSE s2)
                   \o (IF IsSymbol(symbol) THEN symbol.name ELSE HexSigned(memop.displacement))
              ELSE s2
    IN  IF s3 # <<>> THEN <<"[">> \o s3 \o <<"]">> ELSE <<>>

Renderable(operand) ==
    operand.type \in {OperandTypes_Immediate, OperandTypes_Memory,
                      OperandTypes_Displacement, OperandTypes_Register}

Printer_out_opstr_nosymbol(operand, table) ==
    CASE operand.type = OperandTypes_Immediate -> HexSigned(operand.value)
      [] operand.type = OperandTypes_Memory -> HexUnsigned(operand.value)
      [] operand.type = OperandTypes_Displacement -> Printer_mem(operand.mem, table)
      [] operand.type = OperandTypes_Register -> Printer_reg(operand.reg)

\* The body of Printer::out's loop that computes opstr for a renderable operand.
Printer_out_opstr(operand, table) ==
    CASE operand.type \in {OperandTypes_Immediate, OperandTypes_Memory} ->
            LET symbol == SymbolTable_symbol(table, operand.value)
            IN  IF IsSymbol(symbol) THEN symbol.name
                ELSE IF operand.type = OperandTypes_Immediate
                     THEN HexSigned(operand.value)
                     ELSE HexUnsigned(operand.value)
      [] operand.type = OperandTypes_Displacement -> Printer_mem(operand.mem, table)
      [] operand.type = OperandTypes_Register -> Printer_reg(operand.reg)

\* The loop of Printer::out from operand k on; st is the string so far and the
\* opfunc calls made so far.
RECURSIVE Printer_out_loop(_, _, _, _)
Printer_out_loop(operands, k, st, table) ==
    IF k > Len(operands) THEN st
    ELSE LET s1 == IF k # 1 THEN st.s \o Comma ELSE st.s
             operand == operands[k]
         IN  IF Renderable(operand)
             THEN LET opstr == Printer_out_opstr(operand, table)
                  IN  Printer_out_loop(operands, k + 1,
                          [s |-> s1 \o opstr,
                           calls |-> Append(st.calls, [operand |-> operand, opstr |-> opstr])],
                          table)
             ELSE Printer_out_loop(operands, k + 1, [s |-> s1, calls |-> st.calls], table)

\* std::string Printer::out(instruction, opfunc) const
Printer_out(instruction, table) ==
    LET s0 == IF instruction.operands # <<>>
              THEN instruction.mnemonic \o <<" ">> ELSE instruction.mnemonic
    IN  Printer_out_loop(instruction.operands, 1, [s |-> s0, calls |-> <<>>], table)

NotRendered == <<"?">>
NoMemQuery == [kind |-> "none"]
Mnemonic == <<"m", "o", "v">>

MyFunc == U64Of(1025 * 4096)
Minus16 == <<LimbMax - 15, LimbMax, LimbMax, LimbMax>>
SymbolCandidates ==
    {[address |-> MyFunc, name |-> <<"m", "y", "F", "u", "n", "c">>, type |-> "Export"],
     [address |-> Minus16, name |-> <<"n", "e", "g">>, type |-> "Import"]}

PrtOff ==
    /\ symbols = {}
    /\ text = NotRendered
    /\ opcalls = <<>>
    /\ memQuery = NoMemQuery

\* The load phase is over: the Symbol Table holds what the loader defined.
PrtInit ==
    /\ symbols \in SUBSET SymbolCandidates
    /\ text = NotRendered
    /\ opcalls = <<>>
    /\ memQuery = NoMemQuery
    /\ ins = [Instruction EXCEPT !.mnemonic = Mnemonic]
    /\ alive = TRUE /\ allocated = 0 /\ released = <<>>
    /\ last = "Instruction" /\ calls = 0

PrtMaxOperands == 3

PrtCanAppend == text = NotRendered /\ Len(ins.operands) < PrtMaxOperands
PrtAppended(op) ==
    /\ last' = op
    /\ UNCHANGED <<alive, allocated, released, calls, symbols, text, opcalls, memQuery>>
    /\ UNCHANGED <<segVars, impVars>>

PrtOp ==
    /\ PrtCanAppend
    /\ ins' = Instruction_op(ins, Operand)
    /\ PrtAppended("op")

PrtReg ==
    /\ PrtCanAppend
    /\ ins' = Instruction_reg(ins, EAX, 0)
    /\ PrtAppended("reg")

PrtImm ==
    /\ PrtCanAppend
    /\ \E T \in {"s32", "u32"}, v \in {<<16, 0>>, <<LimbMax - 15, LimbMax>>} :
          ins' = Instruction_imm(ins, T, v)
    /\ PrtAppended("imm")

PrtMem ==
    /\ PrtCanAppend
    /\ \E v \in {MyFunc, Minus16} : ins' = Instruction_mem(ins, v)
    /\ PrtAppended("mem")

PrtDisp ==
    /\ PrtCanAppend
    /\ \/ ins' = Instruction_disp2(ins, EBX, "s32", <<16, 0>>)
       \/ ins' = Instruction_disp2(ins, REGISTER_INVALID, "s32", <<0, 0>>)
    /\ PrtAppended("disp")

PrtOut ==
    /\ text = NotRendered
    /\ text' = Printer_out(ins, symbols).s
    /\ opcalls' = Printer_out(ins, symbols).calls
    /\ last' = "out"
    /\ UNCHANGED <<ins, alive, allocated, released, calls, symbols, memQuery>>
    /\ UNCHANGED <<segVars, impVars>>

PrtNext == PrtOp \/ PrtReg \/ PrtImm \/ PrtMem \/ PrtDisp \/ PrtOut

\* The MemoryOperands a decoder can build: base, index, scale and displacement.
MemBases == {REGISTER_INVALID, EBX}
MemIndexes == {REGISTER_INVALID, ECX}
MemScales == {0, 1, 2, 8}
MemDisplacements == {U64Zero, U64Of(16), Minus16, MyFunc, <<0, 0, 0, HighBit>>}

PrtMemCall ==
    /\ \E base \in MemBases, index \in MemIndexes, scale \in MemScales,
          displacement \in MemDisplacements :
          LET memop == MemoryOperandOf(RegisterOperandOf(0, base),
                                       RegisterOperandOf(0, index), scale, displacement)
          IN  memQuery' = [kind |-> "mem", memop |-> memop,
                           result |-> Printer_mem(memop, symbols)]
    /\ UNCHANGED <<ins, alive, allocated, released, last, calls, symbols, text, opcalls>>
    /\ UNCHANGED <<segVars, impVars>>

PrtMemNext == PrtMemCall

----------------------------------------------------------------------------
(* Bit operations on machine words.                                        *)

RECURSIVE And16(_, _, _)
And16(a, b, n) ==
    IF n = 0 THEN 0
    ELSE 2 * And16(a \div 2, b \div 2, n - 1) + (IF a % 2 = 1 /\ b % 2 = 1 THEN 1 ELSE 0)

RECURSIVE Xor16(_, _, _)
Xor16(a, b, n) ==
    IF n = 0 THEN 0
    ELSE 2 * Xor16(a \div 2, b \div 2, n - 1) + (IF a % 2 # b % 2 THEN 1 ELSE 0)

\* a & b and a ^ b on words of the same width.
AndW(a, b) == [k \in 1..Len(a) |-> And16(a[k], b[k], 16)]
XorW(a, b) == [k \in 1..Len(a) |-> Xor16(a[k], b[k], 16)]

ZeroW(a) == \A k \in 1..Len(a) : a[k] = 0

\* A THUNK (u32 or u64) widened to u64.
ThunkToU64(t) == IF Len(t) = 2 THEN ZeroExt32(t) ELSE t

----------------------------------------------------------------------------
(* The PE image and the parts of PeFormat that pe.h calls.                  *)

Page == 2 ^ 12
ImageBase == U64Of(1024 * Page)

\* The one section of the image: RVAs 0x2000 .. 0x2FFF, at file offset 0x400.
SectionRva == 2 * Page
SectionSize == Page
SectionOffset == Page \div 4
Segments ==
    {SegmentOf(<<".", "i", "d", "a", "t", "a">>, U64Of(SectionOffset),
               Add64(ImageBase, U64Of(SectionRva)), U64Of(SectionSize), 2)}

\* What offset() gives for an address no segment contains.
BadOffset == U64Max

\* offset_t PeFormat::offset(address): segment.offset + (address - segment.address)
PeFormat_offset(address) ==
    IF \E seg \in Segments : Segment_contains(seg, address)
    THEN LET seg == CHOOSE sg \in Segments : Segment_contains(sg, address)
         IN  Add64(seg.offset, Sub64(address, seg.address))
    ELSE BadOffset

\* u64 PeFormat::rvaToOffset(rva): offset(imagebase + rva)
PeFormat_rvaToOffset(rva) == PeFormat_offset(Add64(ImageBase, rva))

\* #define RVA_POINTER(type, rva) (pointer<type>(rvaToOffset(rva)))
RVA_POINTER(rva) == PeFormat_rvaToOffset(rva)

\* Where the import table's parts lie (RVAs), and RVAs outside every section.
OftRva == SectionRva
FtRva == SectionRva + 64
NameRva == SectionRva + 256
HintNameRvaA == SectionRva + 512
HintNameRvaB == SectionRva + 528
BadOftRva == 9 * Page
BadFtRva == (9 * Page) + 64
BadNameRva == (9 * Page) + 256
BadHintNameRva == (9 * Page) + 512

\* IMAGE_ORDINAL_FLAG32 / IMAGE_ORDINAL_FLAG64: bit 31 / bit 63.
OrdinalFlag(bits) == IF bits = 32 THEN <<0, HighBit>> ELSE <<0, 0, 0, HighBit>>

\* sizeof(THUNK)
ThunkWidth(bits) == IF bits = 32 THEN 4 ELSE 8

\* The template argument ordinalflag: the flag converted to int (its low 32 bits).
OrdinalFlagArg(bits) == <<OrdinalFlag(bits)[1], OrdinalFlag(bits)[2]>>

\* An int operand of & or ^ converted to the THUNK type: reinterpreted for u32,
\* sign-extended for u64.
IntToThunk(v, bits) == IF bits = 32 THEN v ELSE SignExt32(v)

\* One entry of the import-table content: an import by name (the RVA of its
\* hint/name record) or by ordinal (the ordinal's bits below the flag).
NameEntry(rva) == [kind |-> "name", rva |-> rva]
OrdinalEntry(n) == [kind |-> "ordinal", n |-> n]

\* The thunk the linker writes for an entry at the given width.
Thunk(entry, bits) ==
    IF entry.kind = "name"
    THEN (IF bits = 32 THEN <<U64Of(entry.rva)[1], U64Of(entry.rva)[2]>>
          ELSE U64Of(entry.rva))
    ELSE LET n == IF bits = 32 THEN entry.n ELSE ZeroExt32(entry.n)
             f == OrdinalFlag(bits)
         IN  [k \in 1..Len(n) |-> n[k] + f[k]]

ThunkZero(bits) == IF bits = 32 THEN <<0, 0>> ELSE <<0, 0, 0, 0>>

TextOpen == <<"O", "p", "e", "n">>
TextRead == <<"R", "e", "a", "d">>
Garbage == <<"#">>
Crash == <<"!", "c", "r", "a", "s", "h">>

\* What the file holds at an offset: thunk arrays (zero-terminated), strings
\* and hint/name records.
FileThunks(img, offset) ==
    IF offset = PeFormat_rvaToOffset(U64Of(OftRva)) THEN img.oft
    ELSE IF offset = PeFormat_rvaToOffset(U64Of(FtRva)) THEN img.ft
    ELSE <<>>

FileString(img, offset) ==
    IF offset = PeFormat_rvaToOffset(U64Of(NameRva)) THEN img.dll
    ELSE IF offset = PeFormat_rvaToOffset(U64Of(HintNameRvaA)) THEN TextOpen
    ELSE IF offset = PeFormat_rvaToOffset(U64Of(HintNameRvaB)) THEN TextRead
    ELSE <<>>

\* How many non-zero words a stray thunk pointer finds before a zero or a fault.
MaxGarbage == 2

\* thunk[i] for thunk = pointer<THUNK>(offset).  An offset no segment gave is
\* no address of the file: the read may fault or yield whatever lies there.
ReadThunk(img, offset, i) ==
    IF offset = BadOffset
    THEN IF i < MaxGarbage
         THEN {Crash, ThunkZero(img.bits), Thunk(NameEntry(HintNameRvaA), img.bits),
               Thunk(OrdinalEntry(<<1, 0>>), img.bits)}
         ELSE {Crash, ThunkZero(img.bits)}
    ELSE IF i < Len(FileThunks(img, offset))
         THEN {Thunk(FileThunks(img, offset)[i + 1], img.bits)}
         ELSE {ThunkZero(img.bits)}

\* The null-terminated string at pointer<const char>(offset).
ReadString(img, offset) ==
    IF offset = BadOffset THEN {Crash, Garbage} ELSE {FileString(img, offset)}

Lower(c) ==
    CASE c = "K" -> "k" [] c = "E" -> "e" [] c = "R" -> "r" [] c = "N" -> "n"
      [] c = "L" -> "l" [] c = "D" -> "d" [] c = "M" -> "m" [] c = "S" -> "s"
      [] c = "V" -> "v" [] c = "B" -> "b" [] OTHER -> c

\* std::transform(..., ::tolower)
ToLower(str) == [k \in 1..Len(str) |-> Lower(str[k])]

\* str.find(sub) != std::string::npos
Contains(str, sub) ==
    \E k \in 0..(Len(str) - Len(sub)) : SubSeq(str, k + 1, k + Len(sub)) = sub

Msvbvm == <<"m", "s", "v", "b", "v", "m">>

DllKernel == <<"k", "e", "r", "n", "e", "l">>

\* bool PEImports::importName(dll, ordinal, name): the ordinal database.
OrdinalDatabase(dll, ordinal) ==
    IF dll = DllKernel /\ ordinal = 1
    THEN <<"B", "e", "e", "p">> ELSE <<>>

\* PEUtils::importName(dll, name) and PEUtils::importName(dll, ordinal)
PEUtils_importName(dll, name) == dll \o <<"!">> \o name
PEUtils_importOrdinal(dll, ordinal) ==
    dll \o <<"!", "O", "r", "d", "i", "n", "a", "l", "_", "_">> \o LimbDigits(ordinal)

\* defineSymbol(address, name, type): insert or overwrite the entry at address.
SymbolTable_define(table, address, name, type) ==
    {sym \in table : sym.address # address}
        \cup {[address |-> address, name |-> name, type |-> type]}

----------------------------------------------------------------------------
(* PeFormat::readDescriptor<THUNK, int ordinalflag> (pe.h).                *)

\* importdescriptor.OriginalFirstThunk ? importdescriptor.OriginalFirstThunk
\*                                     : importdescriptor.FirstThunk
PeFormat_thunkRva(descriptor) ==
    IF descriptor.OriginalFirstThunk # 0
    THEN descriptor.OriginalFirstThunk ELSE descriptor.FirstThunk

PeFormat_thunkAddress_oft(descriptor, i, bits) ==
    Add64(ImageBase, U64Of(PeFormat_thunkRva(descriptor) + (i * ThunkWidth(bits))))

\* address = _imagebase + (importdescriptor.FirstThunk + (i * sizeof(THUNK)))
PeFormat_thunkAddress(descriptor, i, bits) ==
    Add64(ImageBase, U64Of(descriptor.FirstThunk + (i * ThunkWidth(bits))))

\* !(thunk[i] & ordinalflag)
PeFormat_isByName(thunk, bits) ==
    ZeroW(AndW(thunk, IntToThunk(OrdinalFlagArg(bits), bits)))

\* u16 ordinal = (ordinalflag ^ thunk[i])
PeFormat_ordinal(thunk, bits) ==
    XorW(IntToThunk(OrdinalFlagArg(bits), bits), thunk)[1]

\* The name an ordinal import gets: from the database, else the fallback.
PeFormat_ordinalName(dll, ordinal) ==
    IF OrdinalDatabase(dll, ordinal) = <<>>
    THEN PEUtils_importOrdinal(dll, ordinal)
    ELSE PEUtils_importName(dll, OrdinalDatabase(dll, ordinal))

MaxThunks == 2

BoundedSeqs(S, n) == UNION {[1..k -> S] : k \in 0..n}

OftEntries ==
    {NameEntry(HintNameRvaA), NameEntry(BadHintNameRva),
     OrdinalEntry(<<1, 0>>), OrdinalEntry(<<1, 1>>)}
FtEntries == {NameEntry(HintNameRvaB), OrdinalEntry(<<2, 0>>)}
DllNames == {<<"K", "E", "R", "N", "E", "L">>, <<"M", "S", "V", "B", "V", "M">>}
Descriptors ==
    [OriginalFirstThunk : {0, OftRva, BadOftRva},
     FirstThunk : {FtRva, BadFtRva},
     Name : {NameRva, BadNameRva}]

NotYet == [bits |-> 0, names |-> <<>>]
PeType_None == 0
PeType_VisualBasic == 1

WalkIdle ==
    /\ pc = "idle"
    /\ idx = 0
    /\ thunkptr = BadOffset
    /\ descriptorname = <<>>
    /\ petype = PeType_None
    /\ steps = <<>>
    /\ defs = <<>>
    /\ badAt = -1

ImpOff ==
    /\ image = [bits |-> 32,
                descriptor |-> [OriginalFirstThunk |-> 0, FirstThunk |-> FtRva,
                                Name |-> NameRva],
                oft |-> <<>>, ft |-> <<>>, dll |-> <<>>]
    /\ firstWalk = NotYet
    /\ WalkIdle

ImpInit ==
    /\ image \in [bits : {32, 64}, descriptor : Descriptors,
                  oft : BoundedSeqs(OftEntries, MaxThunks),
                  ft : BoundedSeqs(FtEntries, MaxThunks), dll : DllNames]
    \* A table the descriptor does not point at is not varied.
    /\ image.descriptor.OriginalFirstThunk # OftRva => image.oft = <<>>
    /\ (image.descriptor.OriginalFirstThunk # 0 \/ image.descriptor.FirstThunk # FtRva)
          => image.ft \in {<<>>, <<NameEntry(HintNameRvaB)>>}
    /\ firstWalk = NotYet
    /\ WalkIdle
    /\ symbols = {}
    /\ text = NotRendered /\ opcalls = <<>> /\ memQuery = NoMemQuery

ImpFrame == UNCHANGED <<segVars, insVars, text, opcalls, memQuery>>

Unresolved(offsets) == BadOffset \in offsets
MarkBad(offsets) == IF badAt = -1 /\ Unresolved(offsets) THEN Len(defs) ELSE badAt

\* Lines 47-54: select the thunk array, read and lower-case the DLL name.
ImpBegin ==
    /\ pc = "idle"
    /\ LET ptr == RVA_POINTER(U64Of(PeFormat_thunkRva(image.descriptor)))
           nameptr == RVA_POINTER(U64Of(image.descriptor.Name))
       IN  /\ \E name \in ReadString(image, nameptr) \ {Crash} :
                /\ descriptorname' = ToLower(name)
                /\ petype' = IF Contains(ToLower(name), Msvbvm)
                             THEN PeType_VisualBasic ELSE petype
           /\ thunkptr' = ptr
           /\ badAt' = MarkBad({ptr, nameptr})
    /\ pc' = "loop"
    /\ idx' = 0
    /\ UNCHANGED <<image, steps, defs, firstWalk, symbols>>
    /\ ImpFrame

\* Reading the DLL name through an unresolved offset faults.
ImpBeginFault ==
    /\ pc = "idle"
    /\ Crash \in ReadString(image, RVA_POINTER(U64Of(image.descriptor.Name)))
    /\ pc' = "crashed"
    /\ badAt' = MarkBad({BadOffset})
    /\ UNCHANGED <<image, idx, thunkptr, descriptorname, petype, steps, defs, firstWalk,
                   symbols>>
    /\ ImpFrame

\* Lines 56-77, one iteration with thunk[i] # 0: resolve the name and define
\* the symbol.
ImpDefine ==
    /\ pc = "loop"
    /\ \E thunk \in ReadThunk(image, thunkptr, idx) \ {Crash} :
          /\ ~ZeroW(thunk)
          /\ LET address == PeFormat_thunkAddress(image.descriptor, idx, image.bits)
                 byname == PeFormat_isByName(thunk, image.bits)
                 nameptr == RVA_POINTER(ThunkToU64(thunk))
                 ordinal == PeFormat_ordinal(thunk, image.bits)
             IN  \E name \in (IF byname THEN ReadString(image, nameptr) \ {Crash}
                              ELSE {<<>>}) :
                     LET importname ==
                             IF byname THEN PEUtils_importName(descriptorname, name)
                             ELSE PeFormat_ordinalName(descriptorname, ordinal)
                     IN  /\ symbols' = SymbolTable_define(symbols, address, importname,
                                                          "Import")
                         /\ defs' = Append(defs, [address |-> address,
                                                  name |-> importname, type |-> "Import"])
                         /\ steps' = Append(steps,
                                [from |-> PeFormat_thunkRva(image.descriptor),
                                 index |-> idx, thunk |-> thunk, byname |-> byname,
                                 ordinal |-> IF byname THEN -1 ELSE ordinal])
                         /\ badAt' = IF byname THEN MarkBad({nameptr}) ELSE badAt
    /\ idx' = idx + 1
    /\ UNCHANGED <<image, pc, thunkptr, descriptorname, petype, firstWalk>>
    /\ ImpFrame

\* The loop condition thunk[i] is zero: the walk returns.
ImpLoopEnd ==
    /\ pc = "loop"
    /\ ThunkZero(image.bits) \in ReadThunk(image, thunkptr, idx)
    /\ pc' = "done"
    /\ UNCHANGED <<image, idx, thunkptr, descriptorname, petype, steps, defs, badAt,
                   firstWalk, symbols>>
    /\ ImpFrame

\* A read through an unresolved offset (the thunk array or a hint/name record)
\* faults.
ImpFault ==
    /\ pc = "loop"
    /\ \/ Crash \in ReadThunk(image, thunkptr, idx)
       \/ \E thunk \in ReadThunk(image, thunkptr, idx) \ {Crash} :
             /\ ~ZeroW(thunk)
             /\ PeFormat_isByName(thunk, image.bits)
             /\ Crash \in ReadString(image, RVA_POINTER(ThunkToU64(thunk)))
    /\ pc' = "crashed"
    /\ badAt' = MarkBad({BadOffset})
    /\ UNCHANGED <<image, idx, thunkptr, descriptorname, petype, steps, defs, firstWalk,
                   symbols>>
    /\ ImpFrame

\* The same import-table content is loaded again, laid out at the other thunk
\* width (a 32-bit and a 64-bit build of one import table).
ImpRelayout ==
    /\ pc = "done"
    /\ firstWalk = NotYet
    /\ firstWalk' = [bits |-> image.bits,
                     names |-> [k \in 1..Len(defs) |-> defs[k].name]]
    /\ image' = [image EXCEPT !.bits = IF image.bits = 32 THEN 64 ELSE 32]
    /\ symbols' = {}
    /\ pc' = "idle"
    /\ idx' = 0
    /\ thunkptr' = BadOffset
    /\ descriptorname' = <<>>
    /\ petype' = PeType_None
    /\ steps' = <<>>
    /\ defs' = <<>>
    /\ badAt' = -1
    /\ ImpFrame

ImpNext == ImpBegin \/ ImpBeginFault \/ ImpDefine \/ ImpLoopEnd \/ ImpFault \/ ImpRelayout

----------------------------------------------------------------------------
(* Specifications.                                                         *)

InitSegment == SegInit /\ InsOff /\ PrtOff /\ ImpOff
InitInstruction == InsInit /\ SegOff /\ PrtOff /\ ImpOff
InitPrinter == PrtInit /\ SegOff /\ ImpOff
InitImport == ImpInit /\ SegOff /\ InsOff

SpecSegment == InitSegment /\ [][SegNext]_vars
SpecInstruction == InitInstruction /\ [][InsNext]_vars
SpecPrinter == InitPrinter /\ [][PrtNext]_vars
SpecPrinterMem == InitPrinter /\ [][PrtMemNext]_vars
SpecImport == InitImport /\ [][ImpNext]_vars

----------------------------------------------------------------------------
(* C9 *)

SegSized == segArgs.ctor = "sized"
SegWraps == SegSized /\ Carry64(segArgs.address, segArgs.size)
SegEmpty == ~SegSized \/ segArgs.size = U64Zero
SegArgSize == IF SegSized THEN segArgs.size ELSE U64Zero

\* C9 (as stated): every Segment the constructors can build has end > start,
\* and contains(address) is true iff start <= address < end.
C9_EndAboveStart ==
    /\ Lt64(segment.address, segment.endaddress)
    /\ segQuery.kind = "contains" =>
          segQuery.result = (/\ Ge64(segQuery.address, segment.address)
                             /\ Lt64(segQuery.address, segment.endaddress))

\* C9 (amended): end > start holds exactly for a Segment built from a non-zero
\* size whose address + size does not wrap past 2^64; a size-0 section and the
\* default Segment have end = start, a wrapping one has end < start, and both
\* contain no address.  For every Segment, contains(a) is true iff a lies at a
\* distance below size from start (start <= a < end), and size() is the size
\* the Segment was built with (end - start in 64-bit arithmetic).
C9_SegmentRange ==
    /\ Lt64(segment.address, segment.endaddress) <=> (~SegEmpty /\ ~SegWraps)
    /\ SegEmpty => segment.endaddress = segment.address
    /\ (SegWraps /\ ~SegEmpty) => Lt64(segment.endaddress, segment.address)
    /\ segQuery.kind = "contains" =>
          segQuery.result =
             (/\ ~SegWraps
              /\ Ge64(segQuery.address, segment.address)
              /\ Lt64(Sub64(segQuery.address, segment.address), SegArgSize))
    /\ segQuery.kind = "size" => segQuery.result = SegArgSize

\* C9 witness: a non-empty Segment was asked about its own end address.
C9_Witness ==
    /\ SegSized /\ ~SegEmpty /\ ~SegWraps
    /\ segQuery.kind = "contains"
    /\ segQuery.address = segment.endaddress
    /\ segQuery.result = FALSE

----------------------------------------------------------------------------
(* C4 *)

IsReset == last' \in {"reset", "~Instruction"}

\* C4 (as stated): a reset (or the destructor's reset) with a payload present
\* invokes the release routine exactly once on that payload and clears the
\* payload reference, the operands and the type; with no payload it releases
\* nothing.
C4_ResetReleasesPayload ==
    [][IsReset =>
          /\ ins'.operands = <<>> /\ ins'.type = 0
          /\ ins'.userdata = NULL
          /\ released' = IF ins.userdata # NULL
                         THEN Append(released, ins.userdata) ELSE released]_vars

\* C4 (amended): a reset (or the destructor's reset) with a payload present and
\* a release routine installed invokes the routine exactly once on that payload
\* and clears the payload reference; with no payload, or with no release
\* routine installed, it invokes nothing and leaves the payload reference as it
\* is.  Either way it clears the operands and the type, and no payload is ever
\* released twice.
C4_ResetReleasesOnce ==
    /\ [](\A j, k \in 1..Len(released) : released[j] = released[k] => j = k)
    /\ [][IsReset =>
            /\ ins'.operands = <<>> /\ ins'.type = 0
            /\ IF ins.userdata # NULL /\ ins.free
               THEN /\ released' = Append(released, ins.userdata)
                    /\ calls' = 1
                    /\ ins'.userdata = NULL
               ELSE /\ released' = released
                    /\ calls' = 0
                    /\ ins'.userdata = ins.userdata]_vars

\* C4 witness: a payload was released and cleared by an earlier reset, and a
\* further reset (here the destructor's) released nothing.
C4_Witness ==
    /\ last = "~Instruction" /\ calls = 0
    /\ ins.userdata = NULL /\ ins.free
    /\ released # <<>>

----------------------------------------------------------------------------
(* C10 *)

\* C10: after any sequence of builder appends interleaved with reset(), the
\* operand at index i of the operand sequence has pos = i (indices from 0).
C10_PosIsIndex ==
    \A k \in 1..Len(ins.operands) : ins.operands[k].pos = k - 1

\* C10 witness: after a reset, op() appended an operand that carried another
\* position behind an operand added by a different builder.
C10_Witness ==
    /\ last = "op"
    /\ Len(ins.operands) = 2
    /\ ins.operands[2].type = OperandTypes_Register
    /\ ins.operands[2].reg.r = EAX
    /\ ins.operands[1].type = OperandTypes_Displacement
    /\ released # <<>>

----------------------------------------------------------------------------
(* C5 *)

RECURSIVE Join(_, _)
Join(texts, sep) ==
    IF texts = <<>> THEN <<>>
    ELSE IF Len(texts) = 1 THEN texts[1]
    ELSE texts[1] \o sep \o Join(Tail(texts), sep)

RECURSIVE RenderedTexts(_, _)
RenderedTexts(operands, table) ==
    IF operands = <<>> THEN <<>>
    ELSE (IF Renderable(Head(operands))
          THEN <<Printer_out_opstr(Head(operands), table)>> ELSE <<>>)
         \o RenderedTexts(Tail(operands), table)

Rendered == text # NotRendered

\* C5 (as stated): Printer::out renders the mnemonic followed by the texts of
\* exactly the renderable operands, in order, joined by ", "; an operand of any
\* other variant contributes neither text nor a separator.
C5_SkippedOperandLeavesNoSeparator ==
    Rendered =>
        text = ins.mnemonic \o
               (IF ins.operands = <<>> THEN <<>>
                ELSE <<" ">> \o Join(RenderedTexts(ins.operands, symbols), Comma))

----------------------------------------------------------------------------
(* C6 *)

MemTerms(memop) ==
    (IF RegisterOperand_isValid(memop.base) THEN <<Printer_reg(memop.base)>> ELSE <<>>)
    \o (IF RegisterOperand_isValid(memop.index)
        THEN <<Printer_reg(memop.index)
               \o (IF memop.scale > 1 THEN Times \o HexSigned(U64Of(memop.scale)) ELSE <<>>)>>
        ELSE <<>>)

MemDispTerm(memop, table) ==
    IF memop.displacement = U64Zero THEN <<>>
    ELSE IF \E sym \in table : sym.address = memop.displacement
         THEN <<(CHOOSE sym \in table : sym.address = memop.displacement).name>>
         ELSE <<HexSigned(memop.displacement)>>

Bracketed(body) == IF body = <<>> THEN <<>> ELSE <<"[">> \o body \o <<"]">>

\* C6 (as stated): Printer::mem returns "[" + the present terms joined by
\* " + " + "]" (base, index with "* scale" when scale > 1, displacement as
\* symbol name or hex), and the empty string when no term is present.
C6_TermsJoinedByPlus ==
    memQuery.kind = "mem" =>
        memQuery.result =
            Bracketed(Join(MemTerms(memQuery.memop)
                           \o MemDispTerm(memQuery.memop, symbols), Plus))

\* C6 (amended): as stated, except that a negative displacement with no symbol
\* at its value is appended to the preceding register term directly, without
\* the " + " separator; a positive displacement, and any displacement that has
\* a symbol, is joined by " + ".
C6_TermsJoinedByPlusUnlessNegative ==
    memQuery.kind = "mem" =>
        LET memop == memQuery.memop
            regs == Join(MemTerms(memop), Plus)
            disp == MemDispTerm(memop, symbols)
            bare == /\ IsNeg64(memop.displacement)
                    /\ ~\E sym \in symbols : sym.address = memop.displacement
        IN  memQuery.result =
                Bracketed(IF disp = <<>> THEN regs
                          ELSE IF regs = <<>> THEN disp[1]
                          ELSE IF bare THEN regs \o disp[1]
                          ELSE regs \o Plus \o disp[1])

\* C6 witness: base, scaled index and a negative displacement without a symbol.
C6_Witness ==
    /\ memQuery.kind = "mem"
    /\ memQuery.memop.base.r = EBX /\ memQuery.memop.index.r = ECX
    /\ memQuery.memop.scale = 8
    /\ memQuery.memop.displacement = Minus16
    /\ symbols = {}
    /\ memQuery.result =
         <<"[", "e", "b", "x", " ", "+", " ", "e", "c", "x", " ", "*", " ", "0", "x", "8",
           "-", "0", "x", "1", "0", "]">>

----------------------------------------------------------------------------
(* C7 *)

ValueOperands(operands) ==
    {k \in 1..Len(operands) :
        operands[k].type \in {OperandTypes_Immediate, OperandTypes_Memory}}

\* C7: every Immediate or Memory operand is rendered as the name of the symbol
\* defined at its value when there is one, and otherwise as the hexadecimal
\* literal of the raw value (signed for Immediate, unsigned for Memory);
\* rendering reaches every such operand and leaves the Symbol Table unchanged.
C7_SymbolOrHex ==
    /\ [](Rendered =>
            /\ \A c \in 1..Len(opcalls) :
                  opcalls[c].operand.type \in {OperandTypes_Immediate, OperandTypes_Memory} =>
                     opcalls[c].opstr =
                        IF \E sym \in symbols : sym.address = opcalls[c].operand.value
                        THEN (CHOOSE sym \in symbols :
                                 sym.address = opcalls[c].operand.value).name
                        ELSE IF opcalls[c].operand.type = OperandTypes_Immediate
                             THEN HexSigned(opcalls[c].operand.value)
                             ELSE HexUnsigned(opcalls[c].operand.value)
            /\ Cardinality(ValueOperands(ins.operands))
                  = Cardinality({c \in 1..Len(opcalls) :
                        opcalls[c].operand.type \in
                            {OperandTypes_Immediate, OperandTypes_Memory}}))
    /\ [][last' = "out" => symbols' = symbols]_vars

\* C7 witness: a Memory operand at a symbol's address and an Immediate with no
\* symbol at its (negative) value were rendered in one instruction.
C7_Witness ==
    /\ Rendered
    /\ Len(opcalls) = 2
    /\ opcalls[1].operand.type = OperandTypes_Memory
    /\ opcalls[1].opstr = <<"m", "y", "F", "u", "n", "c">>
    /\ opcalls[2].operand.type = OperandTypes_Immediate
    /\ opcalls[2].opstr = <<"-", "0", "x", "1", "0">>

----------------------------------------------------------------------------
(* C1 *)

SelectedRva ==
    IF image.descriptor.OriginalFirstThunk # 0
    THEN image.descriptor.OriginalFirstThunk ELSE image.descriptor.FirstThunk

\* The content of the thunk array at an RVA some section holds.
ArrayAt(rva) == IF rva = OftRva THEN image.oft ELSE image.ft

\* imagebase + rva + i * width, one addition at a time.
SlotAddress(rva, i) ==
    Add64(Add64(ImageBase, U64Of(rva)), U64Of(i * ThunkWidth(image.bits)))

\* C1: the walk reads its thunks from the array at OriginalFirstThunk when that
\* is non-zero and from the array at FirstThunk otherwise; for every index i
\* before the first zero entry it defines exactly one Import symbol, at
\* imagebase + FirstThunk + i * thunk_width; it records nothing at an address
\* derived from OriginalFirstThunk and nothing for the zero entry or beyond.
C1_ReadOftDefineFt ==
    /\ Len(steps) = Len(defs)
    /\ Cardinality(symbols) = Len(defs)
    /\ \A k \in 1..Len(defs) :
          /\ steps[k].from = SelectedRva /\ steps[k].index = k - 1
          /\ defs[k].address = SlotAddress(image.descriptor.FirstThunk, k - 1)
          /\ defs[k].type = "Import"
          /\ defs[k] \in symbols
    /\ image.descriptor.OriginalFirstThunk # 0 =>
          \A sym \in symbols, i \in 0..Len(defs) :
              sym.address # SlotAddress(image.descriptor.OriginalFirstThunk, i)
    /\ SelectedRva \in {OftRva, FtRva} =>
          /\ Len(defs) <= Len(ArrayAt(SelectedRva))
          /\ \A k \in 1..Len(defs) :
                steps[k].thunk = Thunk(ArrayAt(SelectedRva)[k], image.bits)
          /\ pc = "done" => Len(defs) = Len(ArrayAt(SelectedRva))

\* C1 witness: a finished walk over a descriptor whose two tables differ in
\* length; two symbols came from the OriginalFirstThunk table.
C1_Witness ==
    /\ pc = "done" /\ badAt = -1
    /\ image.descriptor.OriginalFirstThunk = OftRva
    /\ image.descriptor.FirstThunk = FtRva
    /\ Len(image.oft) = 2 /\ Len(image.ft) = 1
    /\ Len(defs) = 2
    /\ defs[2].address = U64Of((1024 * 4096) + 8256 + ThunkWidth(image.bits))

----------------------------------------------------------------------------
(* C2 *)

\* C2 (as stated): once an RVA the walk follows resolves outside all segments,
\* the walk has aborted with a structural-validation failure and has defined
\* no further symbol.
C2_AbortsOnUnresolvedRva ==
    badAt # -1 => (pc = "failed" /\ Len(defs) = badAt)

----------------------------------------------------------------------------
(* C3 *)

HasFlag(thunk) == thunk[Len(thunk)] >= HighBit
BelowFlag(thunk) == ThunkToU64([thunk EXCEPT ![Len(thunk)] = @ % HighBit])

\* C3 (as stated): a thunk is treated as an ordinal import iff its flag bit
\* (bit 31 of a 32-bit thunk, bit 63 of a 64-bit one) is set, and the ordinal
\* computed from flag | N is exactly N.
C3_OrdinalExact ==
    \A k \in 1..Len(steps) :
        /\ steps[k].byname = ~HasFlag(steps[k].thunk)
        /\ HasFlag(steps[k].thunk) =>
              U64Of(steps[k].ordinal) = BelowFlag(steps[k].thunk)

----------------------------------------------------------------------------
(* C8 *)

\* Every RVA of the descriptor and of the table the walk reads lies in a section.
WellFormed ==
    /\ SelectedRva \in {OftRva, FtRva}
    /\ image.descriptor.Name = NameRva
    /\ \A k \in 1..Len(ArrayAt(SelectedRva)) :
          ArrayAt(SelectedRva)[k] # NameEntry(BadHintNameRva)

\* C8 (as stated): the walk over the same import-table content laid out with
\* 4-byte thunks and with 8-byte thunks defines the same number of Import
\* symbols with the same names in the same order.
C8_SameNamesAtBothWidths ==
    (firstWalk # NotYet /\ WellFormed) =>
        /\ pc # "crashed"
        /\ pc = "done" => [k \in 1..Len(defs) |-> defs[k].name] = firstWalk.names

====
